---------------------------- MODULE Spec2Model ----------------------------
(***************************************************************************)
(* Order / payment / inventory state machine of the marketplace backend.   *)
(*                                                                         *)
(* The relational store is three tables (users, products, orders).  Every  *)
(* request handler of OrderService, ProductService and the webhook         *)
(* controller is one action that runs to completion (specification Spec:   *)
(* requests do not overlap and store writes succeed).  The variable `last` *)
(* is the observable outcome of the most recent request: what was asked,   *)
(* what the handler loaded, which store and gateway calls it made, and     *)
(* what it answered.                                                       *)
(***************************************************************************)
EXTENDS Integers, Sequences, FiniteSets, TLC

(* ------------------------------ bounds -------------------------------- *)
MaxProducts == 1
MaxOrders == 2
MaxStock == 2
MaxPrice == 1

UserIds == {"u1", "u2"}
(* the callers of createProduct: user ids are opaque, so one seller stands *)
(* for any                                                                 *)
Sellers == {"u1"}
ProductIds == 1..MaxProducts
OrderIds == 1..MaxOrders
TxRefs == 1..MaxOrders
Quantities == 1..MaxStock
Stocks == 1..MaxStock
Prices == 1..MaxPrice

(* ------------------------------ enums --------------------------------- *)
PENDING == "pending"
SUCCESSFUL == "successful"
FAILED == "failed"
OrderStatus == {PENDING, SUCCESSFUL, FAILED}

ACTIVE == "active"
OUT_OF_STOCK == "out_of_stock"
DELETED == "deleted"
ProductStatus == {ACTIVE, OUT_OF_STOCK, DELETED}

(* an optional dto field that was not supplied: a string, or a number *)
undefined == "undefined"
undefinedNumber == 0 - 1
NoRow == [none |-> TRUE]

(* ------------------------------ state --------------------------------- *)
VARIABLES users, products, orders, last

vars == <<users, products, orders, last>>

(* A Product row; the id is the position in `products`. *)
Product(userId, price, stock, status) ==
  [userId |-> userId, price |-> price, stock |-> stock, status |-> status]

(* An Order row; the id is the position in `orders`. *)
Order(userId, productId, quantity, totalPrice, txRef, status) ==
  [userId |-> userId, productId |-> productId, quantity |-> quantity,
   totalPrice |-> totalPrice, txRef |-> txRef, status |-> status]

(* orderRepository.findOne({ where: { txRef } }): the id of the row, 0 if none *)
FindOrderByTxRef(ords, txRef) ==
  IF \E i \in 1..Len(ords) : ords[i].txRef = txRef
  THEN CHOOSE i \in 1..Len(ords) : ords[i].txRef = txRef
  ELSE 0

(* The outcome of one request.                                            *)
(*   op, userId, id  the handler, the caller ("" for the webhook, which    *)
(*                   carries no token) and the product id, order id or     *)
(*                   transaction reference the request named               *)
(*   dto             the request body (createOrder; updateOrderStatus once *)
(*                   authorized), the signature header (webhook)           *)
(*   pre             the product and order tables when the request came    *)
(*   order, product  the rows the handler loaded, as loaded (createOrder:  *)
(*                   `order` is the row as it was inserted)                *)
(*   effects         the store and gateway calls made, in order            *)
(*   gateway         the answer of the payment gateway, when it was called *)
(*   result, message "ok" when the handler returned, else the exception    *)
(*   ret             the value returned                                    *)
Outcome(op, userId, id, dto) ==
  [op |-> op, userId |-> userId, id |-> id, dto |-> dto,
   pre |-> [products |-> products, orders |-> orders],
   order |-> NoRow, product |-> NoRow, effects |-> <<>>, gateway |-> NoRow,
   result |-> "ok", message |-> "", ret |-> NoRow]

Init ==
  /\ users = {}
  /\ products = <<>>
  /\ orders = <<>>
  /\ last = Outcome("boot", "", 0, NoRow)

(* --------------------------- AuthService ------------------------------ *)
(* A signup with an e-mail that is not registered yet creates user u. *)
Signup(u) ==
  /\ u \notin users
  /\ users' = users \cup {u}
  /\ UNCHANGED <<products, orders>>
  /\ last' = [Outcome("signup", u, 0, NoRow)
                EXCEPT !.effects = <<"user.findBy", "user.save">>]

(* -------------------------- ProductService ---------------------------- *)
(* CreateProductDto: price, optional stock (>= 1).  The columns `stock`    *)
(* and `status` default to 1 and active.  The userId column is a foreign   *)
(* key: the store rejects a row whose user does not exist.                 *)
CreateProduct(userId, dto) ==
  LET stock == IF dto.stock = undefinedNumber THEN 1 ELSE dto.stock
      product == Product(userId, dto.price, stock, ACTIVE)
      out == [Outcome("createProduct", userId, 0, NoRow)
                EXCEPT !.effects = <<"product.save">>]
  IN IF userId \in users
     THEN /\ Len(products) < MaxProducts
          /\ products' = Append(products, product)
          /\ UNCHANGED <<users, orders>>
          /\ last' = [out EXCEPT !.ret = product]
     ELSE /\ UNCHANGED <<users, products, orders>>
          /\ last' = [out EXCEPT !.result = "InternalServerError",
                                 !.message = "Failed to create product"]

(* findOne({ where: { id, status: Not(DELETED) } }) *)
\* (the same lookup without the status filter)
FindLiveProductUnfiltered(productId) ==
  IF productId \in 1..Len(products) THEN products[productId] ELSE NoRow

FindLiveProduct(productId) ==
  IF productId \in 1..Len(products) /\ products[productId].status # DELETED
  THEN products[productId]
  ELSE NoRow

(* The row updateProduct saves: the supplied fields, and the status        *)
(* derived from the new stock when no status is supplied.                  *)
\* (the supplied fields alone, the status never derived from the stock)
UpdatedProductNoAdjust(product, dto) ==
  LET p1 == IF dto.price # undefinedNumber
            THEN [product EXCEPT !.price = dto.price] ELSE product
      p2 == IF dto.stock # undefinedNumber
            THEN [p1 EXCEPT !.stock = dto.stock] ELSE p1
  IN IF dto.status # undefined THEN [p2 EXCEPT !.status = dto.status] ELSE p2

UpdatedProduct(product, dto) ==
  LET p1 == IF dto.price # undefinedNumber
            THEN [product EXCEPT !.price = dto.price] ELSE product
      p2 == IF dto.stock # undefinedNumber
            THEN LET s == [p1 EXCEPT !.stock = dto.stock]
                 IN IF dto.status = undefined
                    THEN IF dto.stock = 0 /\ s.status = ACTIVE
                         THEN [s EXCEPT !.status = OUT_OF_STOCK]
                         ELSE IF dto.stock > 0 /\ s.status = OUT_OF_STOCK
                         THEN [s EXCEPT !.status = ACTIVE]
                         ELSE s
                    ELSE s
            ELSE p1
  IN IF dto.status # undefined THEN [p2 EXCEPT !.status = dto.status] ELSE p2

(* The status updateProduct refuses to set *)
\* (no status refused)
BlockedStatusNone(dto) == FALSE

BlockedStatus(dto) == dto.status = DELETED

(* updateProduct; `seen` is what the outcome keeps of the request body *)
UpdateProductSeen(userId, dto, seen) ==
  LET product == FindLiveProduct(dto.productId)
      out == [Outcome("updateProduct", userId, dto.productId, seen)
                EXCEPT !.product = product, !.effects = <<"product.findOne">>]
      reject(result, message) ==
        /\ UNCHANGED <<users, products, orders>>
        /\ last' = [out EXCEPT !.result = result, !.message = message]
  IN IF product = NoRow THEN reject("NotFound", "Product not found")
     ELSE IF product.userId # userId
       THEN reject("Forbidden", "No permission to update this product")
     ELSE IF BlockedStatus(dto)
       THEN reject("BadRequest", "Cannot set status to DELETED")
     ELSE /\ products' = [products EXCEPT
                            ![dto.productId] = UpdatedProduct(product, dto)]
          /\ UNCHANGED <<users, orders>>
          /\ last' = [out EXCEPT
                        !.effects = <<"product.findOne", "product.save">>,
                        !.ret = UpdatedProduct(product, dto)]

UpdateProduct(userId, dto) == UpdateProductSeen(userId, dto, NoRow)

\* (a delete that also removes the orders of the product)
DeleteProductCascade(productId, userId) ==
  LET product == FindLiveProduct(productId)
      out == [Outcome("deleteProduct", userId, productId, NoRow)
                EXCEPT !.product = product, !.effects = <<"product.findOne">>]
  IN IF product = NoRow \/ product.userId # userId
     THEN /\ UNCHANGED <<users, products, orders>>
          /\ last' = [out EXCEPT !.result = "NotFound"]
     ELSE /\ products' = [products EXCEPT ![productId].status = DELETED]
          /\ orders' = SelectSeq(orders, LAMBDA o : o.productId # productId)
          /\ UNCHANGED users
          /\ last' = out

DeleteProduct(productId, userId) ==
  LET product == FindLiveProduct(productId)
      out == [Outcome("deleteProduct", userId, productId, NoRow)
                EXCEPT !.product = product, !.effects = <<"product.findOne">>]
      reject(result, message) ==
        /\ UNCHANGED <<users, products, orders>>
        /\ last' = [out EXCEPT !.result = result, !.message = message]
  IN IF product = NoRow THEN reject("NotFound", "Product not found")
     ELSE IF product.userId # userId
       THEN reject("Forbidden", "No permission to delete this product")
     ELSE /\ products' = [products EXCEPT ![productId].status = DELETED]
          /\ UNCHANGED <<users, orders>>
          /\ last' = [out EXCEPT
                        !.effects = <<"product.findOne", "product.save">>]

(* --------------------------- OrderService ----------------------------- *)
(* productRepository.findOne({ where: { id } }) *)
FindProduct(productId) ==
  IF productId \in 1..Len(products) THEN products[productId] ELSE NoRow

(* orderRepository.findOne({ where: { id } }) *)
FindOrder(orderId) ==
  IF orderId \in 1..Len(orders) THEN orders[orderId] ELSE NoRow

(* The preconditions of createOrder in the order the code tests them: the  *)
(* first that fails, as <<exception, message>>, or <<"ok", "">>.           *)
\* (the same checks without the stock comparison of line 105)
CheckoutCheckNoStock(userId, dto) ==
  LET product == FindProduct(dto.productId)
  IN IF userId \notin users THEN <<"NotFound", "User not found">>
     ELSE IF product = NoRow THEN <<"NotFound", "Product not found">>
     ELSE IF product.status = DELETED
       THEN <<"BadRequest", "Product is no longer available">>
     ELSE IF product.status # ACTIVE
       THEN <<"BadRequest", "Product is not available for purchase">>
     ELSE <<"ok", "">>

\* (the same checks with the stock comparison before the status checks)
CheckoutCheckStockFirst(userId, dto) ==
  LET product == FindProduct(dto.productId)
  IN IF userId \notin users THEN <<"NotFound", "User not found">>
     ELSE IF product = NoRow THEN <<"NotFound", "Product not found">>
     ELSE IF product.stock < dto.quantity
       THEN <<"BadRequest", "Insufficient stock">>
     ELSE IF product.status = DELETED
       THEN <<"BadRequest", "Product is no longer available">>
     ELSE IF product.status # ACTIVE
       THEN <<"BadRequest", "Product is not available for purchase">>
     ELSE <<"ok", "">>

CheckoutCheck(userId, dto) ==
  LET product == FindProduct(dto.productId)
  IN IF userId \notin users THEN <<"NotFound", "User not found">>
     ELSE IF product = NoRow THEN <<"NotFound", "Product not found">>
     ELSE IF product.status = DELETED
       THEN <<"BadRequest", "Product is no longer available">>
     ELSE IF product.status # ACTIVE
       THEN <<"BadRequest", "Product is not available for purchase">>
     ELSE IF product.stock < dto.quantity
       THEN <<"BadRequest", "Insufficient stock">>
     ELSE <<"ok", "">>

(* chapa.initialize answers with a checkout url, without one, or throws *)
InitializeResponses ==
  {[checkout_url |-> "url", throws |-> FALSE],
   [checkout_url |-> undefined, throws |-> FALSE],
   [checkout_url |-> undefined, throws |-> TRUE]}

(* The try block around chapa.initialize returns iff a url came back *)
\* (the same without the test for a missing checkout_url)
CheckoutInitializedNoUrlCheck(response) == ~response.throws

CheckoutInitialized(response) ==
  ~response.throws /\ response.checkout_url # undefined

(* chapa.generateTransactionReference: a reference no order carries yet   *)
(* (references are opaque, so the first unused one stands for any).        *)
GenerateTransactionReference ==
  LET unused == {t \in TxRefs : FindOrderByTxRef(orders, t) = 0}
  IN {t \in unused : \A u \in unused : t <= u}

(* orderRepository.save of a new row: the unique(txRef) constraint rejects *)
(* a reference that is already stored (the table is then left as it was).  *)
\* (an insert without the unique constraint)
InsertOrderNoUnique(ords, order) == Append(ords, order)

InsertOrder(ords, order) ==
  IF FindOrderByTxRef(ords, order.txRef) # 0 THEN ords
  ELSE Append(ords, order)

(* orderRepository.update({ id }, { status }) *)
\* (an update without the where clause)
UpdateOrderRowAll(ords, orderId, status) ==
  [o \in 1..Len(ords) |-> [ords[o] EXCEPT !.status = status]]

UpdateOrderRow(ords, orderId, status) ==
  [ords EXCEPT ![orderId].status = status]

(* The row createOrder builds: the price is the product's at that time *)
\* (the same row for a quantity of one, whatever was asked)
NewOrderOfOne(userId, dto, product, txRef) ==
  Order(userId, dto.productId, 1, product.price, txRef, PENDING)

\* (the same row with the unit price as the total)
NewOrderUnitPrice(userId, dto, product, txRef) ==
  Order(userId, dto.productId, dto.quantity, product.price, txRef, PENDING)

NewOrder(userId, dto, product, txRef) ==
  Order(userId, dto.productId, dto.quantity, product.price * dto.quantity,
        txRef, PENDING)

(* createOrder, with the references the generator may return *)
CreateOrderWith(dto, userId, txRefs) ==
  LET check == CheckoutCheck(userId, dto)
      product == FindProduct(dto.productId)
      lookups == IF userId \notin users THEN <<"user.findOne">>
                 ELSE <<"user.findOne", "product.findOne">>
      out == [Outcome("createOrder", userId, dto.productId, dto)
                EXCEPT !.product = IF userId \in users THEN product ELSE NoRow,
                       !.effects = lookups]
  IN IF check[1] # "ok"
     THEN /\ UNCHANGED <<users, products, orders>>
          /\ last' = [out EXCEPT !.result = check[1], !.message = check[2]]
     ELSE \E txRef \in txRefs, response \in InitializeResponses :
       LET order == NewOrder(userId, dto, product, txRef)
           saved == InsertOrder(orders, order)
           made == lookups \o <<"chapa.generateTransactionReference",
                                "order.insert">>
       IN /\ Len(orders) < MaxOrders
          /\ UNCHANGED <<users, products>>
          /\ IF saved = orders
             THEN /\ orders' = orders
                  /\ last' = [out EXCEPT
                       !.order = order,
                       !.effects = made,
                       !.result = "InternalServerError",
                       !.message = "Failed to create order"]
             ELSE IF CheckoutInitialized(response)
             THEN /\ orders' = saved
                  /\ last' = [out EXCEPT
                       !.order = order,
                       !.effects = made \o <<"chapa.initialize">>,
                       !.gateway = response,
                       !.ret = [checkoutUrl |-> response.checkout_url,
                                txRef |-> txRef]]
             ELSE /\ orders' = UpdateOrderRow(saved, Len(saved), FAILED)
                  /\ last' = [out EXCEPT
                       !.order = order,
                       !.effects = made \o <<"chapa.initialize",
                                             "order.update">>,
                       !.gateway = response,
                       !.result = "InternalServerError",
                       !.message = "Could not process payment"]

CreateOrder(dto, userId) ==
  CreateOrderWith(dto, userId, GenerateTransactionReference)

(* chapa.verify answers { status, data: { status, tx_ref } }; the gateway  *)
(* echoes the reference it was asked about in data.tx_ref.                 *)
GatewayStatuses == {"success", "failed"}
VerifyResponses == [status : GatewayStatuses, data : [status : GatewayStatuses]]

\* (the same looking at response.status only)
PaymentConfirmedOuterOnly(response) == response.status = "success"

PaymentConfirmed(response) ==
  ~(response.status # "success" \/ response.data.status # "success")

(* The idempotency check of verifyPayment *)
\* (the same taking only successful orders as processed)
AlreadyProcessedSuccessfulOnly(order) == order.status = SUCCESSFUL

\* (the same taking only failed orders as processed)
AlreadyProcessedFailedOnly(order) == order.status = FAILED

AlreadyProcessed(order) == order.status # PENDING

(* The stock re-check of verifyPayment *)
\* (no re-check at all; a re-check for any stock left)
SufficientStockUnchecked(product, order) == TRUE

SufficientStockAnyLeft(product, order) == product.stock > 0

SufficientStock(product, order) == product.stock >= order.quantity

(* The status verifyPayment gives a pending order *)
\* (the same without the reassignment of line 248)
VerifiedStatusAlwaysSuccessful(product, order) == SUCCESSFUL

VerifiedStatus(product, order) ==
  IF SufficientStock(product, order) THEN SUCCESSFUL ELSE FAILED

(* The stock debit of verifyPayment on the loaded product *)
\* (a debit of one unit instead of the quantity)
DebitStockByOne(product, quantity) ==
  LET stock == product.stock - 1
  IN [product EXCEPT !.stock = stock,
                     !.status = IF stock = 0 THEN OUT_OF_STOCK ELSE @]

\* (a debit that leaves the status alone)
DebitStockNoDemotion(product, quantity) ==
  [product EXCEPT !.stock = product.stock - quantity]

DebitStock(product, quantity) ==
  LET stock == product.stock - quantity
  IN [product EXCEPT !.stock = stock,
                     !.status = IF stock = 0 THEN OUT_OF_STOCK ELSE @]

(* OrderService.verifyPayment, continuing the outcome `out` the controller *)
(* started.                                                                *)
VerifyPayment(txRef, out) ==
  \E response \in VerifyResponses :
  LET orderId == FindOrderByTxRef(orders, txRef)
      order == FindOrder(orderId)
      product == FindProduct(order.productId)
      asked == [out EXCEPT !.effects = <<"chapa.verify">>,
                           !.gateway = response]
      found == [asked EXCEPT !.effects = <<"chapa.verify", "order.findOne">>,
                             !.order = order,
                             !.product = IF order = NoRow THEN NoRow
                                         ELSE product]
  IN IF ~PaymentConfirmed(response)
     THEN /\ UNCHANGED <<users, products, orders>>
          /\ last' = [asked EXCEPT !.result = "BadRequest",
                                   !.message = "Payment verification failed"]
     ELSE IF order = NoRow
     THEN /\ UNCHANGED <<users, products, orders>>
          /\ last' = [found EXCEPT !.result = "NotFound",
                                   !.message = "Order not found"]
     ELSE IF AlreadyProcessed(order)
     THEN /\ UNCHANGED <<users, products, orders>>
          /\ last' = [found EXCEPT !.ret = order]
     ELSE IF SufficientStock(product, order)
     THEN /\ products' = [products EXCEPT ![order.productId] =
                                     DebitStock(product, order.quantity)]
          /\ orders' = [orders EXCEPT
                          ![orderId].status = VerifiedStatus(product, order)]
          /\ UNCHANGED users
          /\ last' = [found EXCEPT
               !.effects = <<"chapa.verify", "order.findOne", "product.save",
                             "order.save">>,
               !.ret = [order EXCEPT
                          !.status = VerifiedStatus(product, order)]]
     ELSE /\ orders' = [orders EXCEPT
                          ![orderId].status = VerifiedStatus(product, order)]
          /\ UNCHANGED <<users, products>>
          /\ last' = [found EXCEPT
               !.effects = <<"chapa.verify", "order.findOne", "order.save">>,
               !.result = "BadRequest",
               !.message = "Insufficient stock to complete order"]

(* ------------------------- OrderController ---------------------------- *)
(* The webhook signature: HMAC-SHA256 of the serialized body under a key,  *)
(* as an injective function of key and body.                               *)
CHAPA_WEBHOOK_SECRET == "CHAPA_WEBHOOK_SECRET"
Keys == {CHAPA_WEBHOOK_SECRET, "another key"}
Hmac(key, body) == [key |-> key, body |-> body]
Bodies == [tx_ref : TxRefs]
Signatures == {Hmac(k, b) : k \in Keys, b \in Bodies}

(* POST /orders/verify *)
\* (the handler without the signature comparison)
VerifyWebhookUnchecked(body, chapaSignature) ==
  VerifyPayment(body.tx_ref,
                Outcome("verifyPayment", "", body.tx_ref, chapaSignature))

\* (the handler looking the order up before anything else)
VerifyWebhookLookupFirst(body, chapaSignature) ==
  LET hash == Hmac(CHAPA_WEBHOOK_SECRET, body)
      out == Outcome("verifyPayment", "", body.tx_ref, chapaSignature)
  IN IF FindOrderByTxRef(orders, body.tx_ref) = 0
     THEN /\ UNCHANGED <<users, products, orders>>
          /\ last' = [out EXCEPT !.effects = <<"order.findOne">>,
                                 !.result = "NotFound",
                                 !.message = "Order not found"]
     ELSE IF hash # chapaSignature
     THEN /\ UNCHANGED <<users, products, orders>>
          /\ last' = [out EXCEPT !.result = "BadRequest",
                                 !.message = "Invalid Chapa signature"]
     ELSE VerifyPayment(body.tx_ref, out)

VerifyWebhook(body, chapaSignature) ==
  LET hash == Hmac(CHAPA_WEBHOOK_SECRET, body)
      out == Outcome("verifyPayment", "", body.tx_ref, chapaSignature)
  IN IF hash # chapaSignature
     THEN /\ UNCHANGED <<users, products, orders>>
          /\ last' = [out EXCEPT !.result = "BadRequest",
                                 !.message = "Invalid Chapa signature"]
     ELSE VerifyPayment(body.tx_ref, out)

(* --------------------- OrderService (continued) ----------------------- *)
(* The owner check of updateOrderStatus on the order's product *)
\* (the same letting the order's buyer through as well)
MayUpdateOrderStatusOrBuyer(order, product, userId) ==
  ~(product.userId # userId /\ order.userId # userId)

MayUpdateOrderStatus(order, product, userId) == ~(product.userId # userId)

(* The transition of updateOrderStatus that puts stock back *)
\* (the same for every transition to failed)
RestoresStockOnAnyFailure(oldStatus, dto) == dto.status = FAILED

RestoresStock(oldStatus, dto) ==
  dto.status = FAILED /\ oldStatus = SUCCESSFUL

(* The stock restore of updateOrderStatus on the re-read product *)
\* (the same without the return to active)
RestoreStockNoReactivation(product, quantity) ==
  [product EXCEPT !.stock = product.stock + quantity]

RestoreStock(product, quantity) ==
  LET stock == product.stock + quantity
  IN [product EXCEPT !.stock = stock,
                     !.status = IF stock > 0 /\ @ = OUT_OF_STOCK
                                THEN ACTIVE ELSE @]

UpdateOrderStatus(orderId, userId, dto) ==
  LET order == FindOrder(orderId)
      product == FindProduct(order.productId)
      oldStatus == order.status
      out == [Outcome("updateOrderStatus", userId, orderId, NoRow)
                EXCEPT !.order = order,
                       !.product = IF order = NoRow THEN NoRow ELSE product,
                       !.effects = <<"order.findOne">>]
  IN IF order = NoRow
     THEN /\ UNCHANGED <<users, products, orders>>
          /\ last' = [out EXCEPT !.result = "NotFound",
                                 !.message = "Order not found"]
     ELSE IF ~MayUpdateOrderStatus(order, product, userId)
     THEN /\ UNCHANGED <<users, products, orders>>
          /\ last' = [out EXCEPT
               !.result = "Forbidden",
               !.message = "Only the product owner can update order status"]
     ELSE /\ orders' = [orders EXCEPT ![orderId].status = dto.status]
          /\ UNCHANGED users
          /\ IF RestoresStock(oldStatus, dto)
             THEN /\ product.stock + order.quantity <= MaxStock  \* model bound
                  /\ products' = [products EXCEPT ![order.productId] =
                                     RestoreStock(product, order.quantity)]
                  /\ last' = [out EXCEPT
                       !.dto = dto,
                       !.effects = <<"order.findOne", "product.findOne",
                                     "product.save", "order.save">>,
                       !.ret = [order EXCEPT !.status = dto.status]]
             ELSE /\ products' = products
                  /\ last' = [out EXCEPT
                       !.dto = dto,
                       !.effects = <<"order.findOne", "order.save">>,
                       !.ret = [order EXCEPT !.status = dto.status]]

(* --------------------------- the requests ----------------------------- *)
CreateProductDtos == [price : Prices, stock : Stocks \cup {undefinedNumber}]
UpdateProductDtos ==
  [productId : ProductIds, price : Prices \cup {undefinedNumber},
   stock : Stocks \cup {undefinedNumber}, status : ProductStatus \cup {undefined}]
CreateOrderDtos == [productId : ProductIds, quantity : Quantities]
UpdateOrderStatusDtos == [status : OrderStatus]

Next ==
  \/ \E u \in UserIds : Signup(u)
  \/ \E u \in Sellers, dto \in CreateProductDtos : CreateProduct(u, dto)
  \/ \E u \in UserIds, dto \in UpdateProductDtos : UpdateProduct(u, dto)
  \/ \E u \in UserIds, p \in ProductIds : DeleteProduct(p, u)
  \/ \E u \in UserIds, dto \in CreateOrderDtos : CreateOrder(dto, u)
  \/ \E b \in Bodies, sig \in Signatures : VerifyWebhook(b, sig)
  \/ \E u \in UserIds, o \in OrderIds, dto \in UpdateOrderStatusDtos :
       UpdateOrderStatus(o, u, dto)

Spec == Init /\ [][Next]_vars

(* Specification SpecForcedReference: the same requests, with a reference  *)
(* generator that may return any reference, used ones included (the        *)
(* references are random strings; this forces the collision).              *)
CreateOrderForced(dto, userId) == CreateOrderWith(dto, userId, TxRefs)

ForcedNext ==
  \/ \E u \in UserIds : Signup(u)
  \/ \E u \in Sellers, dto \in CreateProductDtos : CreateProduct(u, dto)
  \/ \E u \in UserIds, dto \in UpdateProductDtos : UpdateProduct(u, dto)
  \/ \E u \in UserIds, p \in ProductIds : DeleteProduct(p, u)
  \/ \E u \in UserIds, dto \in CreateOrderDtos : CreateOrderForced(dto, u)
  \/ \E b \in Bodies, sig \in Signatures : VerifyWebhook(b, sig)
  \/ \E u \in UserIds, o \in OrderIds, dto \in UpdateOrderStatusDtos :
       UpdateOrderStatus(o, u, dto)

SpecForcedReference == Init /\ [][ForcedNext]_vars


(* ------------------------------ queries ------------------------------- *)
(* The condition of getOrderById under which the caller is refused *)
\* (the same letting only the buyer through)
MayAccessOrderBuyerOnly(order, product, userId) == ~(order.userId # userId)

MayAccessOrder(order, product, userId) ==
  ~(order.userId # userId /\ product.userId # userId)

GetOrderById(orderId, userId) ==
  LET order == FindOrder(orderId)
      product == FindProduct(order.productId)
      out == [Outcome("getOrderById", userId, orderId, NoRow)
                EXCEPT !.order = order,
                       !.product = IF order = NoRow THEN NoRow ELSE product,
                       !.effects = <<"order.findOne">>]
  IN /\ UNCHANGED <<users, products, orders>>
     /\ IF order = NoRow
        THEN last' = [out EXCEPT !.result = "NotFound",
                                 !.message = "Order not found"]
        ELSE IF ~MayAccessOrder(order, product, userId)
        THEN last' = [out EXCEPT
               !.result = "Forbidden",
               !.message = "You do not have access to this order"]
        ELSE last' = [out EXCEPT !.ret = order]

(* find({ where, order: { createdAt: 'DESC' } }): the rows with these ids, *)
(* the latest first, each with its id                                      *)
FindProducts(ids) ==
  [i \in 1..Cardinality(ids) |->
     LET p == CHOOSE p \in ids : Cardinality({q \in ids : q > p}) = i - 1
     IN [id |-> p, product |-> products[p]]]

GetAllProducts ==
  /\ UNCHANGED <<users, products, orders>>
  /\ last' = [Outcome("getAllProducts", "", 0, NoRow) EXCEPT
       !.effects = <<"product.find">>,
       !.ret = FindProducts({p \in 1..Len(products) :
                               products[p].status # DELETED})]

GetMyProducts(userId) ==
  /\ UNCHANGED <<users, products, orders>>
  /\ last' = [Outcome("getMyProducts", userId, 0, NoRow) EXCEPT
       !.effects = <<"product.find">>,
       !.ret = FindProducts({p \in 1..Len(products) :
                               /\ products[p].userId = userId
                               /\ products[p].status # DELETED})]

(* findOne({ where: { id, status: ACTIVE } }) *)
FindActiveProduct(productId) ==
  IF productId \in 1..Len(products) /\ products[productId].status = ACTIVE
  THEN products[productId]
  ELSE NoRow

GetPublicProduct(productId) ==
  LET product == FindActiveProduct(productId)
      out == [Outcome("getPublicProduct", "", productId, NoRow)
                EXCEPT !.product = product, !.effects = <<"product.findOne">>]
  IN /\ UNCHANGED <<users, products, orders>>
     /\ IF product = NoRow \/ product.stock = 0
        THEN last' = [out EXCEPT !.result = "NotFound",
                                 !.message = "Product not found or unavailable"]
        ELSE last' = [out EXCEPT !.ret = product]

GetProductById(productId, userId) ==
  LET product == FindLiveProduct(productId)
      out == [Outcome("getProductById", userId, productId, NoRow)
                EXCEPT !.product = product, !.effects = <<"product.findOne">>]
  IN /\ UNCHANGED <<users, products, orders>>
     /\ IF product = NoRow
        THEN last' = [out EXCEPT !.result = "NotFound",
                                 !.message = "Product not found"]
        ELSE IF product.userId # userId
        THEN last' = [out EXCEPT
               !.result = "Forbidden",
               !.message = "You do not have access to this product"]
        ELSE last' = [out EXCEPT !.ret = product]

GetProductStatus(productId) ==
  LET product == FindLiveProduct(productId)
      out == [Outcome("getProductStatus", "", productId, NoRow)
                EXCEPT !.product = product, !.effects = <<"product.findOne">>]
  IN /\ UNCHANGED <<users, products, orders>>
     /\ IF product = NoRow
        THEN last' = [out EXCEPT !.result = "NotFound",
                                 !.message = "Product not found"]
        ELSE last' = [out EXCEPT !.ret =
               [status |-> product.status, stock |-> product.stock,
                isAvailable |-> product.status = ACTIVE /\ product.stock > 0]]

(* Specification SpecQueries: the requests of Spec and the queries. *)
QueriesNext ==
  \/ Next
  \/ \E u \in UserIds, o \in OrderIds : GetOrderById(o, u)
  \/ GetAllProducts
  \/ \E u \in UserIds : GetMyProducts(u)
  \/ \E p \in ProductIds : GetPublicProduct(p)
  \/ \E u \in UserIds, p \in ProductIds : GetProductById(p, u)
  \/ \E p \in ProductIds : GetProductStatus(p)

SpecQueries == Init /\ [][QueriesNext]_vars

(* Specification SpecProductUpdates: the product requests alone, with    *)
(* the body of every update kept in the outcome.                           *)
ProductUpdatesNext ==
  \/ \E u \in UserIds : Signup(u)
  \/ \E u \in Sellers, dto \in CreateProductDtos : CreateProduct(u, dto)
  \/ \E u \in UserIds, dto \in UpdateProductDtos : UpdateProductSeen(u, dto, dto)
  \/ \E u \in UserIds, p \in ProductIds : DeleteProduct(p, u)

SpecProductUpdates == Init /\ [][ProductUpdatesNext]_vars

(* Specification SpecUpdateProductService: ProductService.updateProduct    *)
(* called with every body its code tells apart, a stock of 0 included      *)
(* (updateProduct tests dto.stock === 0; the @Min(1) of the dto class is   *)
(* applied by the validation in front of the controller, not by the        *)
(* service).                                                               *)
ServiceUpdateProductDtos ==
  [productId : ProductIds, price : (1..(MaxPrice + 1)) \cup {undefinedNumber},
   stock : (0..MaxStock) \cup {undefinedNumber},
   status : ProductStatus \cup {undefined}]

UpdateProductServiceNext ==
  \/ \E u \in UserIds : Signup(u)
  \/ \E u \in Sellers, dto \in CreateProductDtos : CreateProduct(u, dto)
  \/ \E u \in UserIds, dto \in ServiceUpdateProductDtos :
       UpdateProductSeen(u, dto, dto)
  \/ \E u \in UserIds, p \in ProductIds : DeleteProduct(p, u)

SpecUpdateProductService == Init /\ [][UpdateProductServiceNext]_vars

(* Specification SpecPriceChange: one user who sells and buys, products   *)
(* whose price the owner changes, and webhooks that carry the right        *)
(* signature.                                                              *)
ChangedPrices == 1..(MaxPrice + 1)

PriceNext ==
  \/ Signup("u1")
  \/ \E dto \in [price : ChangedPrices, stock : Stocks] :
       CreateProduct("u1", dto)
  \/ \E dto \in [productId : ProductIds, price : ChangedPrices,
                 stock : {undefinedNumber}, status : {undefined}] :
       UpdateProduct("u1", dto)
  \/ \E p \in ProductIds : DeleteProduct(p, "u1")
  \/ \E dto \in CreateOrderDtos : CreateOrder(dto, "u1")
  \/ \E b \in Bodies : VerifyWebhook(b, Hmac(CHAPA_WEBHOOK_SECRET, b))
  \/ \E o \in OrderIds, dto \in UpdateOrderStatusDtos :
       UpdateOrderStatus(o, "u1", dto)

SpecPriceChange == Init /\ [][PriceNext]_vars

(* ---------------- overlapping webhook deliveries ---------------------- *)
(* Specification SpecConcurrent: two executions of verifyPayment whose     *)
(* awaits interleave.  Each execution runs the code of verifyPayment one   *)
(* await at a time: chapa.verify, then orderRepository.findOne (the order  *)
(* joined with its product, one query), then the saves.  A save writes the *)
(* column values the execution holds in memory.  The store starts with one *)
(* active product and MaxOrders pending orders on it (as checkouts in Spec *)
(* leave them); `last` holds the executions: the reference each was        *)
(* called with, where it stands, the product as it read it, the order and *)
(* product it holds in memory, how it ended, and the order in which the    *)
(* products were saved.                                                    *)
Executions == {1, 2}

Execution(txRef) ==
  [txRef |-> txRef, pc |-> "verify", read |-> NoRow, order |-> NoRow,
   product |-> NoRow, result |-> "", threw |-> ""]

PendingOrders(quantity) ==
  [o \in OrderIds |-> Order("u2", 1, quantity[o], quantity[o], o, PENDING)]

ConcurrentInit ==
  /\ users = {"u1", "u2"}
  /\ \E stock \in Stocks : products = <<Product("u1", 1, stock, ACTIVE)>>
  /\ \E quantity \in [OrderIds -> Quantities] :
       orders = PendingOrders(quantity)
  /\ \E txRef \in [Executions -> TxRefs] :
       last = [op |-> "concurrent",
               pre |-> [products |-> products, orders |-> orders],
               execs |-> [e \in Executions |-> Execution(txRef[e])],
               saved |-> <<>>]

At(e, pc) == last.op = "concurrent" /\ last.execs[e].pc = pc

(* e stands before one of its saves *)
IsSaving(e) ==
  /\ last.op = "concurrent"
  /\ last.execs[e].pc \in {"saveProduct", "saveOrder", "saveFailed"}

(* const response = await this.chapa.verify({ tx_ref: txRef }) and the    *)
(* test of its two status fields                                           *)
VerifyPaymentAskGateway(e) ==
  /\ At(e, "verify")
  /\ \E response \in VerifyResponses :
       last' = [last EXCEPT
         !.execs[e].pc = IF PaymentConfirmed(response) THEN "find" ELSE "done",
         !.execs[e].result = IF PaymentConfirmed(response) THEN ""
                             ELSE "BadRequest"]
  /\ UNCHANGED <<users, products, orders>>

(* const order = await this.orderRepository.findOne(...) with its product, *)
(* then everything up to the next await: the not-found and idempotency     *)
(* returns, the status assignment and the stock re-check with the debit    *)
(* in memory                                                               *)
VerifyPaymentFindOrder(e) ==
  LET orderId == FindOrderByTxRef(orders, last.execs[e].txRef)
      order == FindOrder(orderId)
      product == FindProduct(order.productId)
  IN /\ At(e, "find")
     /\ UNCHANGED <<users, products, orders>>
     /\ IF order = NoRow
        THEN last' = [last EXCEPT !.execs[e].pc = "done",
                                  !.execs[e].result = "NotFound"]
        ELSE IF AlreadyProcessed(order)
        THEN last' = [last EXCEPT !.execs[e].pc = "done",
                                  !.execs[e].result = "ok",
                                  !.execs[e].read = product,
                                  !.execs[e].order = order,
                                  !.execs[e].product = product]
        ELSE last' = [last EXCEPT
               !.execs[e].read = product,
               !.execs[e].pc = IF SufficientStock(product, order)
                               THEN "saveProduct" ELSE "saveFailed",
               !.execs[e].order =
                 [order EXCEPT !.status = VerifiedStatus(product, order)],
               !.execs[e].product =
                 IF SufficientStock(product, order)
                 THEN DebitStock(product, order.quantity) ELSE product]

(* await this.productRepository.save(product) *)
\* (the same as a decrement of the stored stock instead of a write of the
\*  value held in memory)
VerifyPaymentSaveProductRelative(e) ==
  LET order == last.execs[e].order
      stored == products[order.productId]
  IN /\ At(e, "saveProduct")
     /\ products' = [products EXCEPT ![order.productId] =
                       DebitStock(stored, order.quantity)]
     /\ last' = [last EXCEPT !.execs[e].pc = "saveOrder",
                             !.saved = Append(@, e)]
     /\ UNCHANGED <<users, orders>>

\* (the order saved where the product should be, the product not at all)
VerifyPaymentSaveOrderFirst(e) ==
  LET order == last.execs[e].order
  IN /\ At(e, "saveProduct")
     /\ orders' = [orders EXCEPT
                     ![FindOrderByTxRef(orders, order.txRef)].status =
                       order.status]
     /\ last' = [last EXCEPT !.execs[e].pc = "saveOrder"]
     /\ UNCHANGED <<users, products>>

\* (the same saving the stock column only)
VerifyPaymentSaveProductStockOnly(e) ==
  LET order == last.execs[e].order
  IN /\ At(e, "saveProduct")
     /\ products' = [products EXCEPT ![order.productId].stock =
                       last.execs[e].product.stock]
     /\ last' = [last EXCEPT !.execs[e].pc = "saveOrder",
                             !.saved = Append(@, e)]
     /\ UNCHANGED <<users, orders>>

VerifyPaymentSaveProduct(e) ==
  LET order == last.execs[e].order
  IN /\ At(e, "saveProduct")
     /\ products' = [products EXCEPT ![order.productId] =
                       last.execs[e].product]
     /\ last' = [last EXCEPT !.execs[e].pc = "saveOrder",
                             !.saved = Append(@, e)]
     /\ UNCHANGED <<users, orders>>

(* await this.orderRepository.save(order); return order *)
\* (the same returning without the save)
VerifyPaymentSaveOrderSkipped(e) ==
  /\ At(e, "saveOrder")
  /\ last' = [last EXCEPT !.execs[e].pc = "done",
                          !.execs[e].result = "ok"]
  /\ UNCHANGED <<users, products, orders>>

VerifyPaymentSaveOrder(e) ==
  LET order == last.execs[e].order
  IN /\ At(e, "saveOrder")
     /\ orders' = [orders EXCEPT
                     ![FindOrderByTxRef(orders, order.txRef)].status =
                       order.status]
     /\ last' = [last EXCEPT !.execs[e].pc = "done",
                             !.execs[e].result = "ok"]
     /\ UNCHANGED <<users, products>>

(* order.status = FAILED; await this.orderRepository.save(order); throw *)
VerifyPaymentSaveFailed(e) ==
  LET order == last.execs[e].order
  IN /\ At(e, "saveFailed")
     /\ orders' = [orders EXCEPT
                     ![FindOrderByTxRef(orders, order.txRef)].status =
                       order.status]
     /\ last' = [last EXCEPT !.execs[e].pc = "done",
                             !.execs[e].result = "BadRequest"]
     /\ UNCHANGED <<users, products>>

ConcurrentNext ==
  \/ \E e \in Executions : VerifyPaymentAskGateway(e)
  \/ \E e \in Executions : VerifyPaymentFindOrder(e)
  \/ \E e \in Executions : VerifyPaymentSaveProduct(e)
  \/ \E e \in Executions : VerifyPaymentSaveOrder(e)
  \/ \E e \in Executions : VerifyPaymentSaveFailed(e)

SpecConcurrent == ConcurrentInit /\ [][ConcurrentNext]_vars

(* Specification SpecConcurrentFair: the same executions, each of which    *)
(* goes on: the gateway and the store answer every call, and the event     *)
(* loop resumes the handler after each await.                              *)
VerifyPaymentStep(e) ==
  \/ VerifyPaymentAskGateway(e)
  \/ VerifyPaymentFindOrder(e)
  \/ VerifyPaymentSaveProduct(e)
  \/ VerifyPaymentSaveOrder(e)
  \/ VerifyPaymentSaveFailed(e)

SpecConcurrentFair ==
  SpecConcurrent /\ \A e \in Executions : WF_vars(VerifyPaymentStep(e))

(* Specification SpecStoreFaults: the same two executions with a store    *)
(* whose writes can fail: a save that throws leaves the store as it was    *)
(* and ends the execution with an internal error.                          *)
VerifyPaymentSaveThrows(e) ==
  /\ IsSaving(e)
  /\ last' = [last EXCEPT !.execs[e].pc = "done",
                          !.execs[e].result = "InternalServerError",
                          !.execs[e].threw = last.execs[e].pc]
  /\ UNCHANGED <<users, products, orders>>

StoreFaultsNext ==
  \/ \E e \in Executions : VerifyPaymentAskGateway(e)
  \/ \E e \in Executions : VerifyPaymentFindOrder(e)
  \/ \E e \in Executions : VerifyPaymentSaveProduct(e)
  \/ \E e \in Executions : VerifyPaymentSaveOrder(e)
  \/ \E e \in Executions : VerifyPaymentSaveFailed(e)
  \/ \E e \in Executions : VerifyPaymentSaveThrows(e)

SpecStoreFaults == ConcurrentInit /\ [][StoreFaultsNext]_vars

(* ------------- a verification overlapping a status update ------------- *)
(* Specification SpecConcurrentUpdate: one execution of verifyPayment and  *)
(* one of updateOrderStatus whose awaits interleave.  The store starts     *)
(* with one product, a pending first order and successful other orders.    *)
UpdateExecution(orderId, userId, dto) ==
  [orderId |-> orderId, userId |-> userId, dto |-> dto,
   pc |-> "update.findOrder", read |-> NoRow, order |-> NoRow,
   product |-> NoRow, result |-> ""]

ResolvedOrders(quantity) ==
  [o \in OrderIds |-> Order("u2", 1, quantity[o], quantity[o], o,
                            IF o = 1 THEN PENDING ELSE SUCCESSFUL)]

ConcurrentUpdateInit ==
  /\ users = {"u1", "u2"}
  /\ \/ \E stock \in Stocks : products = <<Product("u1", 1, stock, ACTIVE)>>
     \/ products = <<Product("u1", 1, 0, OUT_OF_STOCK)>>
  /\ \E quantity \in [OrderIds -> Quantities] :
       orders = ResolvedOrders(quantity)
  /\ \E txRef \in TxRefs, orderId \in OrderIds, userId \in UserIds,
        dto \in UpdateOrderStatusDtos :
       last = [op |-> "concurrent",
               pre |-> [products |-> products, orders |-> orders],
               execs |-> <<Execution(txRef),
                           UpdateExecution(orderId, userId, dto)>>,
               saved |-> <<>>]

(* const order = await this.orderRepository.findOne(...) with its product, *)
(* the not-found and owner checks, and order.status = dto.status in memory *)
UpdateOrderStatusFindOrder(e) ==
  LET exec == last.execs[e]
      order == FindOrder(exec.orderId)
      product == FindProduct(order.productId)
  IN /\ At(e, "update.findOrder")
     /\ UNCHANGED <<users, products, orders>>
     /\ IF order = NoRow
        THEN last' = [last EXCEPT !.execs[e].pc = "done",
                                  !.execs[e].result = "NotFound"]
        ELSE IF ~MayUpdateOrderStatus(order, product, exec.userId)
        THEN last' = [last EXCEPT !.execs[e].pc = "done",
                                  !.execs[e].result = "Forbidden"]
        ELSE last' = [last EXCEPT
               !.execs[e].pc = IF RestoresStock(order.status, exec.dto)
                               THEN "update.findProduct"
                               ELSE "update.saveOrder",
               !.execs[e].order = [order EXCEPT !.status = exec.dto.status]]

(* const product = await this.productRepository.findOne(...) and the      *)
(* restore in memory                                                       *)
UpdateOrderStatusFindProduct(e) ==
  LET order == last.execs[e].order
      product == FindProduct(order.productId)
  IN /\ At(e, "update.findProduct")
     /\ UNCHANGED <<users, products, orders>>
     /\ last' = [last EXCEPT
          !.execs[e].pc = "update.saveProduct",
          !.execs[e].read = product,
          !.execs[e].product = RestoreStock(product, order.quantity)]

(* await this.productRepository.save(product) *)
UpdateOrderStatusSaveProduct(e) ==
  LET order == last.execs[e].order
  IN /\ At(e, "update.saveProduct")
     /\ products' = [products EXCEPT ![order.productId] =
                       last.execs[e].product]
     /\ last' = [last EXCEPT !.execs[e].pc = "update.saveOrder",
                             !.saved = Append(@, e)]
     /\ UNCHANGED <<users, orders>>

(* updatedOrder = await this.orderRepository.save(order) *)
UpdateOrderStatusSaveOrder(e) ==
  LET exec == last.execs[e]
  IN /\ At(e, "update.saveOrder")
     /\ orders' = [orders EXCEPT ![exec.orderId].status = exec.order.status]
     /\ last' = [last EXCEPT !.execs[e].pc = "done",
                             !.execs[e].result = "ok"]
     /\ UNCHANGED <<users, products>>

ConcurrentUpdateNext ==
  \/ VerifyPaymentAskGateway(1)
  \/ VerifyPaymentFindOrder(1)
  \/ VerifyPaymentSaveProduct(1)
  \/ VerifyPaymentSaveOrder(1)
  \/ VerifyPaymentSaveFailed(1)
  \/ UpdateOrderStatusFindOrder(2)
  \/ UpdateOrderStatusFindProduct(2)
  \/ UpdateOrderStatusSaveProduct(2)
  \/ UpdateOrderStatusSaveOrder(2)

SpecConcurrentUpdate == ConcurrentUpdateInit /\ [][ConcurrentUpdateNext]_vars

(* ------------------- the life of an order, serially ------------------- *)
(* Specification SpecSerial: up to MaxRequests calls of verifyPayment and  *)
(* updateOrderStatus (by the owner) that run one after the other, each to  *)
(* completion, and are all remembered: last.execs is the list of the       *)
(* calls so far, the last of them the one that is running; last.pre is the *)
(* store before the first call, last.saved the calls that saved the        *)
(* product, in order.  The store starts with one product with stock, in    *)
(* any of the states the owner can have put it in since the checkouts      *)
(* (active, out_of_stock by hand, deleted), and MaxOrders pending orders.  *)
MaxRequests == 3

SerialInit ==
  /\ users = {"u1", "u2"}
  /\ \E stock \in Stocks, status \in ProductStatus :
       products = <<Product("u1", 1, stock, status)>>
  /\ \E quantity \in [OrderIds -> Quantities] :
       orders = PendingOrders(quantity)
  /\ last = [op |-> "concurrent",
             pre |-> [products |-> products, orders |-> orders],
             execs |-> <<>>,
             saved |-> <<>>]

(* no call is running *)
Idle ==
  /\ last.op = "concurrent"
  /\ \A e \in 1..Len(last.execs) : last.execs[e].pc = "done"

(* the call that is running (the last one started), if there is one *)
Running == {e \in 1..Len(last.execs) : e = Len(last.execs)}

(* POST /orders/verify with a valid signature calls verifyPayment *)
StartVerifyPayment(txRef) ==
  /\ Idle
  /\ Len(last.execs) < MaxRequests
  /\ last' = [last EXCEPT !.execs = Append(@, Execution(txRef))]
  /\ UNCHANGED <<users, products, orders>>

(* PATCH /orders/:orderId/status calls updateOrderStatus *)
StartUpdateOrderStatus(orderId, userId, dto) ==
  /\ Idle
  /\ Len(last.execs) < MaxRequests
  /\ last' = [last EXCEPT
                !.execs = Append(@, UpdateExecution(orderId, userId, dto))]
  /\ UNCHANGED <<users, products, orders>>

SerialNext ==
  \/ \E txRef \in TxRefs : StartVerifyPayment(txRef)
  \/ \E o \in OrderIds, dto \in UpdateOrderStatusDtos :
       StartUpdateOrderStatus(o, "u1", dto)
  \/ \E e \in Running : VerifyPaymentAskGateway(e)
  \/ \E e \in Running : VerifyPaymentFindOrder(e)
  \/ \E e \in Running : VerifyPaymentSaveProduct(e)
  \/ \E e \in Running : VerifyPaymentSaveOrder(e)
  \/ \E e \in Running : VerifyPaymentSaveFailed(e)
  \/ \E e \in Running : UpdateOrderStatusFindOrder(e)
  \/ \E e \in Running : UpdateOrderStatusFindProduct(e)
  \/ \E e \in Running : UpdateOrderStatusSaveProduct(e)
  \/ \E e \in Running : UpdateOrderStatusSaveOrder(e)

SpecSerial == SerialInit /\ [][SerialNext]_vars

(* --------------------------- two products ----------------------------- *)
(* Specification SpecTwoProducts: a store with one product more than       *)
(* MaxProducts, all of seller u1, and the requests of buyer u2 and of the  *)
(* owner on them: checkouts, signed webhooks and status updates that run   *)
(* one at a time, until a webhook and a status update arrive together and  *)
(* their awaits interleave (verifyPayment as execution 1, updateOrderStatus *)
(* as execution 2, on the store as it is then).                            *)
TwoProductIds == 1..(MaxProducts + 1)

TwoProductsInit ==
  /\ users = {"u1", "u2"}
  /\ \E stock \in [TwoProductIds -> Stocks] :
       products = [p \in TwoProductIds |-> Product("u1", 1, stock[p], ACTIVE)]
  /\ orders = <<>>
  /\ last = Outcome("boot", "", 0, NoRow)

(* POST /orders/verify and PATCH /orders/:orderId/status arrive together *)
StartOverlap(txRef, orderId, userId, dto) ==
  /\ last.op # "concurrent"
  /\ last' = [op |-> "concurrent",
              pre |-> [products |-> products, orders |-> orders],
              execs |-> <<Execution(txRef),
                          UpdateExecution(orderId, userId, dto)>>,
              saved |-> <<>>]
  /\ UNCHANGED <<users, products, orders>>

TwoProductsNext ==
  \/ /\ last.op # "concurrent"
     /\ \E dto \in [productId : TwoProductIds, quantity : Quantities] :
          CreateOrder(dto, "u2")
  \/ /\ last.op # "concurrent"
     /\ \E b \in Bodies : VerifyWebhook(b, Hmac(CHAPA_WEBHOOK_SECRET, b))
  \/ /\ last.op # "concurrent"
     /\ \E o \in OrderIds, dto \in UpdateOrderStatusDtos :
          UpdateOrderStatus(o, "u1", dto)
  \/ \E txRef \in TxRefs, o \in OrderIds, dto \in UpdateOrderStatusDtos :
       StartOverlap(txRef, o, "u1", dto)
  \/ VerifyPaymentAskGateway(1)
  \/ VerifyPaymentFindOrder(1)
  \/ VerifyPaymentSaveProduct(1)
  \/ VerifyPaymentSaveOrder(1)
  \/ VerifyPaymentSaveFailed(1)
  \/ UpdateOrderStatusFindOrder(2)
  \/ UpdateOrderStatusFindProduct(2)
  \/ UpdateOrderStatusSaveProduct(2)
  \/ UpdateOrderStatusSaveOrder(2)

SpecTwoProducts == TwoProductsInit /\ [][TwoProductsNext]_vars


(* ======================= properties of the model ====================== *)
(* Vocabulary of the properties, read off the last outcome.               *)
PreProducts == last.pre.products
PreOrders == last.pre.orders
Untouched == products = PreProducts /\ orders = PreOrders
Made(call) == \E i \in 1..Len(last.effects) : last.effects[i] = call

(* the position in `ords` of the order carrying reference t, 0 if none *)
Carrier(ords, t) ==
  IF \E i \in 1..Len(ords) : ords[i].txRef = t
  THEN CHOOSE i \in 1..Len(ords) : ords[i].txRef = t
  ELSE 0

IsVerify == last.op = "verifyPayment"
SignatureValid ==
  last.dto = [key |-> "CHAPA_WEBHOOK_SECRET", body |-> [tx_ref |-> last.id]]
GatewayAsked == last.gateway # NoRow
GatewaySaysSuccess ==
  /\ GatewayAsked
  /\ last.gateway.status = "success"
  /\ last.gateway.data.status = "success"
(* the order the webhook names, in the tables as the request found them *)
NamedOrderId == Carrier(PreOrders, last.id)
NamedOrder == PreOrders[NamedOrderId]
NamedProductId == NamedOrder.productId
NamedProduct == PreProducts[NamedProductId]
(* a verification that got as far as handling a pending order *)
HandlesPending ==
  /\ IsVerify /\ SignatureValid /\ GatewaySaysSuccess
  /\ NamedOrderId # 0
  /\ NamedOrder.status = "pending"

(* the total quantity of the successful orders of product p *)
RECURSIVE SuccessfulQuantity(_, _)
SuccessfulQuantity(ords, p) ==
  IF ords = <<>> THEN 0
  ELSE (IF Head(ords).productId = p /\ Head(ords).status = "successful"
        THEN Head(ords).quantity ELSE 0)
       + SuccessfulQuantity(Tail(ords), p)

(* C1. Idempotent verification.  A verification of an order that is       *)
(* already successful or failed changes neither table.  When a            *)
(* verification that handled a pending order is directly followed by a    *)
(* second one for the same reference (again signed and confirmed), the    *)
(* second changes nothing and returns the order in the status the first   *)
(* left it, so over the two calls the stock went down by the order's      *)
(* quantity once if the first made it successful (and not at all if the   *)
(* first made it failed).                                                  *)
C1_Step ==
  LET oid == Carrier(orders, last'.id)
      pid == orders[oid].productId
  IN /\ (last'.op = "verifyPayment" /\ oid # 0 /\ orders[oid].status # "pending")
          => (orders' = orders /\ products' = products)
     /\ (/\ HandlesPending
         /\ last'.op = "verifyPayment" /\ last'.id = last.id
         /\ last'.dto = last.dto
         /\ last'.gateway # NoRow
         /\ last'.gateway.status = "success"
         /\ last'.gateway.data.status = "success")
          => /\ orders' = orders /\ products' = products
             /\ last'.result = "ok"
             /\ last'.ret = orders[oid]
             /\ orders[oid].status \in {"successful", "failed"}
             /\ orders[oid].status = "successful"
                  => products'[pid].stock
                       = PreProducts[pid].stock - orders[oid].quantity
             /\ orders[oid].status = "failed"
                  => products'[pid].stock = PreProducts[pid].stock
C1_IdempotentVerification == [][C1_Step]_vars

(* C1 witness: a signed, confirmed webhook for an order that was already  *)
(* successful came back with that order and changed nothing.              *)
C1_Witness ==
  /\ IsVerify /\ SignatureValid /\ GatewaySaysSuccess
  /\ NamedOrderId # 0
  /\ NamedOrder.status = "successful"
  /\ last.result = "ok" /\ last.ret = NamedOrder
  /\ Untouched

(* C2. Stock never goes negative: every product has stock >= 0 in every   *)
(* state reached by requests that run one after another.                  *)
C2_StockNeverNegative ==
  \A p \in 1..Len(products) : products[p].stock >= 0

(* C2 witness: a verification has just debited a product down to 0.      *)
C2_Witness ==
  /\ HandlesPending
  /\ NamedProduct.stock > 0
  /\ products[NamedProductId].stock = 0

(* C3. Sufficient-stock path: a verification that handles a pending order *)
(* while stock >= quantity lowers the stock by exactly the quantity, sets  *)
(* the product out_of_stock when the new stock is 0 and leaves its status  *)
(* alone otherwise, and makes the order successful.                        *)
C3_SufficientStockPath ==
  (HandlesPending /\ NamedProduct.stock >= NamedOrder.quantity)
    => /\ products[NamedProductId].stock
            = NamedProduct.stock - NamedOrder.quantity
       /\ products[NamedProductId].status
            = IF products[NamedProductId].stock = 0 THEN "out_of_stock"
              ELSE NamedProduct.status
       /\ orders[NamedOrderId].status = "successful"
       /\ last.result = "ok"

(* C3 witness: an order of 2 was verified against stock 2.                *)
C3_Witness ==
  /\ HandlesPending
  /\ NamedOrder.quantity = 2 /\ NamedProduct.stock = 2
  /\ NamedProduct.status = "active"
  /\ products[NamedProductId].status = "out_of_stock"
  /\ orders[NamedOrderId].status = "successful"

(* C4. Insufficient-stock path: a verification that handles a pending     *)
(* order while stock < quantity stores the order as failed, answers with   *)
(* a 400 error and leaves the product's stock and status as they were.     *)
C4_InsufficientStockPath ==
  (HandlesPending /\ NamedProduct.stock < NamedOrder.quantity)
    => /\ orders[NamedOrderId].status = "failed"
       /\ Made("order.save")
       /\ last.result = "BadRequest"
       /\ products = PreProducts

(* C4 witness: an order of 2 was verified against stock 1.                *)
C4_Witness ==
  /\ HandlesPending
  /\ NamedOrder.quantity = 2 /\ NamedProduct.stock = 1
  /\ orders[NamedOrderId].status = "failed"
  /\ last.result = "BadRequest"

(* C5. The re-check at verification time prevents overselling when        *)
(* verifications run one after another: a verification makes an order      *)
(* successful only if the stock it finds covers the quantity; checkouts    *)
(* and verifications leave stock + (total quantity of successful orders)   *)
(* of every product as it was, with stock >= 0, so the successful orders   *)
(* never add up to more than the stock there was.  With stock 1 and        *)
(* pending orders of 1: the verification that finds stock 1 gives          *)
(* successful, stock 0, out_of_stock; the one that finds stock 0 gives     *)
(* failed and an error.                                                     *)
C5_NoOversellingSequential ==
  /\ (IsVerify /\ NamedOrderId # 0 /\ NamedOrder.status = "pending"
        /\ orders[NamedOrderId].status = "successful")
       => NamedProduct.stock >= NamedOrder.quantity
  /\ last.op \in {"createOrder", "verifyPayment"}
       => \A p \in 1..Len(products) :
            /\ products[p].stock >= 0
            /\ products[p].stock + SuccessfulQuantity(orders, p)
                 = PreProducts[p].stock + SuccessfulQuantity(PreOrders, p)
  /\ (HandlesPending /\ NamedOrder.quantity = 1 /\ NamedProduct.stock = 1)
       => /\ orders[NamedOrderId].status = "successful"
          /\ products[NamedProductId].stock = 0
          /\ products[NamedProductId].status = "out_of_stock"
  /\ (HandlesPending /\ NamedOrder.quantity = 1 /\ NamedProduct.stock = 0)
       => /\ orders[NamedOrderId].status = "failed"
          /\ last.result # "ok"

(* C5 witness: of two orders of 1 on a product, one is successful and has *)
(* taken the last unit; the verification of the other has just failed.    *)
C5_Witness ==
  /\ HandlesPending
  /\ NamedOrder.quantity = 1
  /\ NamedProduct.stock = 0 /\ NamedProduct.status = "out_of_stock"
  /\ \E o \in 1..Len(orders) :
       /\ o # NamedOrderId
       /\ orders[o].productId = NamedProductId
       /\ orders[o].quantity = 1 /\ orders[o].status = "successful"
  /\ orders[NamedOrderId].status = "failed"
  /\ last.result = "BadRequest"

(* C6. Webhook authenticity is a hard gate: when the signature header     *)
(* differs from the HMAC of the body, the request is rejected before       *)
(* anything else happens: the gateway is not asked, no order or product    *)
(* is read, and neither table changes.                                      *)
C6_SignatureGate ==
  (IsVerify /\ ~SignatureValid)
    => /\ last.result = "BadRequest"
       /\ last.message = "Invalid Chapa signature"
       /\ last.effects = <<>>
       /\ ~GatewayAsked
       /\ last.order = NoRow /\ last.product = NoRow
       /\ Untouched

(* C6 witness: a webhook naming a pending, payable order, signed for      *)
(* that very body but with another key, was rejected.                      *)
C6_Witness ==
  /\ IsVerify
  /\ last.dto = [key |-> "another key", body |-> [tx_ref |-> last.id]]
  /\ NamedOrderId # 0
  /\ NamedOrder.status = "pending"
  /\ NamedProduct.stock >= NamedOrder.quantity
  /\ last.result = "BadRequest"

(* C7. Gateway ground truth gates every change: when the gateway's answer *)
(* for the reference is anything but success, the verification ends with   *)
(* an error and no order and no product changes, whatever the status of    *)
(* the order.                                                               *)
C7_GatewayGate ==
  (IsVerify /\ GatewayAsked /\ ~GatewaySaysSuccess)
    => /\ last.result = "BadRequest"
       /\ last.message = "Payment verification failed"
       /\ Untouched

(* C7 witness: the gateway answered success at the top and failed in the  *)
(* data for a pending, payable order, and the webhook was refused.          *)
C7_Witness ==
  /\ IsVerify /\ GatewayAsked
  /\ last.gateway.status = "success" /\ last.gateway.data.status = "failed"
  /\ NamedOrderId # 0
  /\ NamedOrder.status = "pending"
  /\ NamedProduct.stock >= NamedOrder.quantity
  /\ last.result = "BadRequest"

(* the preconditions of a checkout, on the tables as the request found    *)
(* them                                                                    *)
IsCheckout == last.op = "createOrder"
BuyerExists == last.userId \in users
CheckoutProductExists == last.dto.productId \in 1..Len(PreProducts)
CheckoutProduct == PreProducts[last.dto.productId]
CheckoutPasses ==
  /\ BuyerExists
  /\ CheckoutProductExists
  /\ CheckoutProduct.status = "active"
  /\ CheckoutProduct.stock >= last.dto.quantity

(* C8. Checkout validation failures persist nothing: when the buyer or    *)
(* the product does not exist, the product is deleted or out_of_stock, or  *)
(* its stock is below the quantity, createOrder is rejected, no order row  *)
(* is created, the gateway is not called and no product changes.           *)
C8_RejectedCheckoutPersistsNothing ==
  (IsCheckout /\ ~CheckoutPasses)
    => /\ last.result \in {"NotFound", "BadRequest"}
       /\ Untouched
       /\ ~Made("order.insert") /\ ~Made("order.update")
       /\ ~Made("chapa.initialize") /\ ~GatewayAsked

(* C8 witness: an existing buyer asked for 2 of an active product that    *)
(* has 1 left.                                                              *)
C8_Witness ==
  /\ IsCheckout /\ BuyerExists /\ CheckoutProductExists
  /\ CheckoutProduct.status = "active"
  /\ CheckoutProduct.stock = 1 /\ last.dto.quantity = 2
  /\ last.result = "BadRequest"
  /\ last.message = "Insufficient stock"

(* C9. Checkout reserves no inventory: a createOrder whose preconditions  *)
(* pass inserts exactly one order row, pending, with the requested         *)
(* quantity and product, and leaves every product's stock and status as    *)
(* they were, whether the gateway call then succeeds or fails.              *)
C9_CheckoutReservesNothing ==
  (IsCheckout /\ CheckoutPasses)
    => /\ Len(orders) = Len(PreOrders) + 1
       /\ SubSeq(orders, 1, Len(PreOrders)) = PreOrders
       /\ Made("order.insert")
       /\ last.order.status = "pending"
       /\ last.order.quantity = last.dto.quantity
       /\ last.order.productId = last.dto.productId
       /\ orders[Len(orders)] \in
            {last.order, [last.order EXCEPT !.status = "failed"]}
       /\ products = PreProducts

(* C9 witness: a checkout for the whole stock of a product went through   *)
(* although the gateway then threw.                                         *)
C9_Witness ==
  /\ IsCheckout /\ CheckoutPasses
  /\ last.dto.quantity = 2 /\ CheckoutProduct.stock = 2
  /\ GatewayAsked /\ last.gateway.throws
  /\ products[last.dto.productId].stock = 2

(* C10. Gateway failure is compensated: when chapa.initialize throws or   *)
(* returns no checkout url, createOrder marks the order it just created    *)
(* failed and answers with a generic failure; so the order it created is   *)
(* pending exactly when a checkout url and the reference were returned,    *)
(* and failed otherwise.                                                    *)
CheckoutCreated == IsCheckout /\ Len(orders) = Len(PreOrders) + 1
CheckoutReturnedUrl ==
  /\ last.result = "ok"
  /\ last.ret.checkoutUrl # "undefined"
  /\ last.ret.txRef = orders[Len(orders)].txRef
C10_GatewayFailureCompensated ==
  CheckoutCreated
    => /\ GatewayAsked
       /\ (last.gateway.throws \/ last.gateway.checkout_url = "undefined")
            => /\ orders[Len(orders)].status = "failed"
               /\ Made("order.update")
               /\ last.result = "InternalServerError"
               /\ last.message = "Could not process payment"
       /\ orders[Len(orders)].status = "pending" <=> CheckoutReturnedUrl
       /\ ~CheckoutReturnedUrl => orders[Len(orders)].status = "failed"

(* C10 witness: the gateway answered without a checkout url and the order *)
(* just created was left failed.                                            *)
C10_Witness ==
  /\ CheckoutCreated /\ GatewayAsked
  /\ ~last.gateway.throws /\ last.gateway.checkout_url = "undefined"
  /\ orders[Len(orders)].status = "failed"
  /\ last.result = "InternalServerError"

(* the order a status update names and its product, in the tables as the  *)
(* request found them                                                       *)
IsStatusUpdate == last.op = "updateOrderStatus"
StatusUpdateOrderExists == last.id \in 1..Len(PreOrders)
StatusUpdateOrder == PreOrders[last.id]
StatusUpdateProductId == StatusUpdateOrder.productId
StatusUpdateProduct == PreProducts[StatusUpdateProductId]
ByOwner ==
  /\ IsStatusUpdate /\ StatusUpdateOrderExists
  /\ StatusUpdateProduct.userId = last.userId

(* C11. Compensating restore: when the product's owner sets a successful  *)
(* order to failed, the product's stock goes up by exactly the order's     *)
(* quantity, an out_of_stock product whose new stock is positive becomes   *)
(* active (any other status stays), and the order is stored as failed.     *)
(* On the example: quantity 3 on stock 5 gives stock 8.                     *)
C11_CompensatingRestore ==
  /\ (ByOwner /\ last.dto.status = "failed"
        /\ StatusUpdateOrder.status = "successful")
       => /\ products[StatusUpdateProductId].stock
               = StatusUpdateProduct.stock + StatusUpdateOrder.quantity
          /\ products[StatusUpdateProductId].status
               = IF StatusUpdateProduct.status = "out_of_stock"
                    /\ products[StatusUpdateProductId].stock > 0
                 THEN "active" ELSE StatusUpdateProduct.status
          /\ orders[last.id].status = "failed"
          /\ last.result = "ok"
  /\ RestoreStock(Product("u1", 1, 5, "active"), 3).stock = 8

(* C11 witness: the owner failed a successful order of a product that was *)
(* sold out, and the product is active again with the quantity back.       *)
C11_Witness ==
  /\ ByOwner /\ last.dto.status = "failed"
  /\ StatusUpdateOrder.status = "successful"
  /\ StatusUpdateProduct.status = "out_of_stock"
  /\ StatusUpdateProduct.stock = 0
  /\ products[StatusUpdateProductId].status = "active"
  /\ products[StatusUpdateProductId].stock = StatusUpdateOrder.quantity

C13_OwnerOnlyStatusUpdate ==
  /\ (IsStatusUpdate /\ StatusUpdateOrderExists
        /\ StatusUpdateProduct.userId # last.userId)
       => /\ last.result = "Forbidden"
          /\ Untouched
  /\ (IsStatusUpdate /\ ~StatusUpdateOrderExists)
       => /\ last.result = "NotFound"
          /\ last.message = "Order not found"
          /\ Untouched

(* C13 witness: the buyer of an order, who does not own the product,      *)
(* asked for a status update and got Forbidden.                             *)
C13_Witness ==
  /\ IsStatusUpdate /\ StatusUpdateOrderExists
  /\ StatusUpdateOrder.userId = last.userId
  /\ StatusUpdateProduct.userId # last.userId
  /\ last.result = "Forbidden"
  /\ Untouched

(* C14. Deleted is terminal: a product whose status is deleted keeps that *)
(* status through every request (product updates and deletes, checkouts,   *)
(* verifications and status updates of its orders).                         *)
C14_DeletedIsTerminal ==
  \A p \in 1..Len(PreProducts) :
    PreProducts[p].status = "deleted" => products[p].status = "deleted"

(* C15. Zero stock is never active: no product has stock 0 and status     *)
(* active.                                                                  *)
C15_ZeroStockNeverActive ==
  \A p \in 1..Len(products) :
    products[p].stock = 0 => products[p].status # "active"

(* C15, amended.  A product has stock 0 and status active only when it    *)
(* had them before the request, or when the request was an updateProduct   *)
(* by which its owner set the status of the sold-out product (stock 0)     *)
(* back to active; createProduct, deleteProduct, verifyPayment and         *)
(* updateOrderStatus never produce such a product.                          *)
C15_ZeroStockActiveOnlyByOverride ==
  \A p \in 1..Len(products) :
    (products[p].stock = 0 /\ products[p].status = "active")
      => \/ /\ p \in 1..Len(PreProducts)
            /\ PreProducts[p].stock = 0
            /\ PreProducts[p].status = "active"
         \/ /\ last.op = "updateProduct" /\ last.id = p
            /\ last.result = "ok"
            /\ PreProducts[p].userId = last.userId
            /\ PreProducts[p].stock = 0
            /\ PreProducts[p].status = "out_of_stock"

(* C15 witness: a verification took the last units of an active product   *)
(* and left it sold out, not active.                                        *)
C15_Witness ==
  /\ HandlesPending
  /\ NamedProduct.status = "active"
  /\ NamedProduct.stock = NamedOrder.quantity
  /\ products[NamedProductId].stock = 0
  /\ products[NamedProductId].status # "active"

(* C16. Orders become successful only through gateway verification: an    *)
(* order is created pending, and whenever a request leaves an order        *)
(* successful that was not successful before, the request is a             *)
(* verification of that order which the gateway confirmed; so every        *)
(* successful order has been through such a verification.                   *)
C16_SuccessfulOnlyByVerification ==
  \A o \in 1..Len(orders) :
    (/\ orders[o].status = "successful"
     /\ (o \in 1..Len(PreOrders) => PreOrders[o].status # "successful"))
      => /\ IsVerify /\ GatewaySaysSuccess
         /\ NamedOrderId = o

(* C17. Order lifecycle through the webhook: the row a checkout inserts   *)
(* is pending; a verification adds and removes no order and changes the    *)
(* status of no order except from pending to successful or failed, and     *)
(* then only of the order it names; so under verifications alone an        *)
(* order's status changes at most once and a successful or failed order    *)
(* stays as it is.                                                          *)
C17_WebhookLifecycle ==
  /\ CheckoutCreated => last.order.status = "pending"
  /\ IsVerify
       => /\ Len(orders) = Len(PreOrders)
          /\ \A o \in 1..Len(orders) :
               orders[o] # PreOrders[o]
                 => /\ o = NamedOrderId
                    /\ PreOrders[o].status = "pending"
                    /\ orders[o].status \in {"successful", "failed"}
                    /\ orders[o] = [PreOrders[o] EXCEPT
                                      !.status = orders[o].status]

(* C17 witness: a signed, confirmed webhook for an order that had failed, *)
(* with enough stock for it now, left the order failed.                     *)
C17_Witness ==
  /\ IsVerify /\ SignatureValid /\ GatewaySaysSuccess
  /\ NamedOrderId # 0
  /\ NamedOrder.status = "failed"
  /\ NamedProduct.status = "active"
  /\ NamedProduct.stock >= NamedOrder.quantity
  /\ orders[NamedOrderId].status = "failed"

(* vocabulary of the overlapping executions *)
IsConcurrent == last.op = "concurrent"
ExecOrderId(e) == Carrier(PreOrders, last.execs[e].txRef)
ExecOrder(e) == PreOrders[ExecOrderId(e)]
AllDone == \A e \in Executions : last.execs[e].pc = "done"
(* the gateway confirmed the payment to e, and e has read its order *)
HasRead(e) == last.execs[e].read # NoRow
(* e read the product before any execution saved it, and found enough *)
ReadFirst(e) ==
  /\ HasRead(e)
  /\ last.execs[e].read = PreProducts[1]
  /\ PreProducts[1].stock >= ExecOrder(e).quantity
(* two executions for different orders that both read before either wrote *)
RacedReads ==
  /\ IsConcurrent
  /\ ExecOrderId(1) # ExecOrderId(2)
  /\ ReadFirst(1) /\ ReadFirst(2)

(* C18. Two concurrent verifications of pending orders on one product     *)
(* that both read the stock before either writes: when the two quantities  *)
(* together exceed the stock, the stock is negative once both are done.    *)
C18_ConcurrentNegativeStock ==
  (/\ RacedReads /\ AllDone
   /\ ExecOrder(1).quantity + ExecOrder(2).quantity > PreProducts[1].stock)
    => products[1].stock < 0

(* C18, amended.  Two such verifications both find the stock sufficient   *)
(* and both make their order successful, each saving the stock it read     *)
(* minus its own quantity: the stock ends as the last of the two saves     *)
(* left it, which is what was read minus that execution's quantity; it is  *)
(* never negative under any interleaving, while the successful orders      *)
(* can add up to more than the stock there was.                             *)
C18_ConcurrentOverselling ==
  /\ IsConcurrent => \A p \in 1..Len(products) : products[p].stock >= 0
  /\ (RacedReads /\ AllDone)
       => /\ orders[ExecOrderId(1)].status = "successful"
          /\ orders[ExecOrderId(2)].status = "successful"
          /\ Len(last.saved) = 2
          /\ products[1].stock
               = PreProducts[1].stock - ExecOrder(last.saved[2]).quantity

(* C18 witness: both executions are done, both orders are successful, and *)
(* they sold more than the stock there was.                                 *)
C18_Witness ==
  /\ RacedReads /\ AllDone
  /\ orders[ExecOrderId(1)].status = "successful"
  /\ orders[ExecOrderId(2)].status = "successful"
  /\ ExecOrder(1).quantity + ExecOrder(2).quantity > PreProducts[1].stock
  /\ products[1].stock >= 0

(* C19. Overlapping deliveries of one webhook are safe: when two          *)
(* executions for the same reference of a pending order with sufficient    *)
(* stock, both confirmed by the gateway, have ended, the order is          *)
(* successful and the stock is down by the order's quantity exactly once,  *)
(* whatever the interleaving.                                               *)
C19_OverlappingDeliveriesSafe ==
  (/\ IsConcurrent
   /\ last.execs[1].txRef = last.execs[2].txRef
   /\ PreProducts[1].stock >= ExecOrder(1).quantity
   /\ HasRead(1) /\ HasRead(2)
   /\ AllDone)
    => /\ orders[ExecOrderId(1)].status = "successful"
       /\ products[1].stock = PreProducts[1].stock - ExecOrder(1).quantity

(* C20. Transaction references are unique: no two orders carry the same   *)
(* reference; when createOrder builds a row whose reference an order       *)
(* already carries, the store rejects the insert, createOrder fails with   *)
(* an internal error before the gateway is called, and the order table is  *)
(* as it was.                                                               *)
C20_UniqueTxRef ==
  /\ \A i, j \in 1..Len(orders) :
       orders[i].txRef = orders[j].txRef => i = j
  /\ (/\ IsCheckout /\ last.order # NoRow
      /\ Carrier(PreOrders, last.order.txRef) # 0)
       => /\ last.result = "InternalServerError"
          /\ last.message = "Failed to create order"
          /\ ~Made("chapa.initialize") /\ ~GatewayAsked
          /\ Untouched

(* C20 witness: a checkout whose preconditions passed drew the reference  *)
(* of an existing order and failed.                                         *)
C20_Witness ==
  /\ IsCheckout /\ CheckoutPasses
  /\ last.order # NoRow
  /\ Carrier(PreOrders, last.order.txRef) # 0
  /\ Made("order.insert")
  /\ last.result = "InternalServerError"
  /\ orders = PreOrders

(* C21. Order snapshot fields are immutable: a request changes nothing of *)
(* an existing order but its status (reference, total price, quantity,     *)
(* product and buyer stay, also when the product's price changes or the    *)
(* product is deleted), and the row a checkout inserts has the product's   *)
(* price at that time multiplied by the quantity as its total price.       *)
C21_OrderSnapshotImmutable ==
  /\ Len(orders) >= Len(PreOrders)
  /\ \A o \in 1..Len(PreOrders) :
       orders[o] = [PreOrders[o] EXCEPT !.status = orders[o].status]
  /\ CheckoutCreated
       => /\ last.order.totalPrice
               = CheckoutProduct.price * last.dto.quantity
          /\ orders[Len(orders)]
               = [last.order EXCEPT !.status = orders[Len(orders)].status]

(* C21 witness: the owner changed the price of a product that has an      *)
(* order; the order keeps the total of the old price.                       *)
C21_Witness ==
  /\ last.op = "updateProduct" /\ last.result = "ok"
  /\ products[last.id].price # PreProducts[last.id].price
  /\ \E o \in 1..Len(orders) :
       /\ orders[o].productId = last.id
       /\ orders[o].totalPrice = PreProducts[last.id].price * orders[o].quantity
       /\ orders[o].totalPrice # products[last.id].price * orders[o].quantity

(* C22. Product stock and status are written as one unit: while a         *)
(* verification and a status update overlap, the stored product is at      *)
(* every moment the product as it was before them or the product exactly   *)
(* as one of them saved it, stock and status together; so nobody reads a   *)
(* new stock with an old status: a product with stock 0 is out_of_stock    *)
(* and one with stock left is active.                                       *)
C22_StockAndStatusOneWrite ==
  IsConcurrent
    => \A p \in 1..Len(products) :
         /\ \/ products[p] = PreProducts[p]
            \/ \E i \in 1..Len(last.saved) :
                 products[p] = last.execs[last.saved[i]].product
         /\ products[p].stock = 0 <=> products[p].status = "out_of_stock"
         /\ products[p].stock > 0 <=> products[p].status = "active"

(* C22 witness: the status update read the product right after the        *)
(* verification had debited it to 0, and saw it out_of_stock.               *)
C22_Witness ==
  /\ IsConcurrent
  /\ last.saved = <<1>>
  /\ PreProducts[1].stock > 0 /\ PreProducts[1].status = "active"
  /\ last.execs[2].pc = "update.saveProduct"
  /\ last.execs[2].read.stock = 0
  /\ last.execs[2].read.status = "out_of_stock"

(* C23. The stock debit is durable before the order is marked successful: *)
(* with saves that can fail, an order that was pending and is stored as    *)
(* successful belongs to an execution whose product save was made before;  *)
(* an execution between its two saves, or whose order save failed, has     *)
(* made its product save; and as long as one execution alone has saved,    *)
(* the stored stock is the stock there was minus that order's quantity.    *)
C23_DebitBeforeSuccessful ==
  IsConcurrent
    => /\ \A o \in 1..Len(orders) :
            (PreOrders[o].status = "pending"
               /\ orders[o].status = "successful")
              => \E i \in 1..Len(last.saved) : ExecOrderId(last.saved[i]) = o
       /\ \A e \in Executions :
            (last.execs[e].pc = "saveOrder" \/ last.execs[e].threw = "saveOrder")
              => \E i \in 1..Len(last.saved) : last.saved[i] = e
       /\ Len(last.saved) = 1
            => products[1].stock
                 = PreProducts[1].stock - ExecOrder(last.saved[1]).quantity

(* C23 witness: the order save of an execution failed after its product   *)
(* save: the stock is debited and the order is still pending.               *)
C23_Witness ==
  /\ IsConcurrent
  /\ last.saved = <<1>>
  /\ last.execs[1].threw = "saveOrder"
  /\ last.execs[1].result = "InternalServerError"
  /\ last.execs[2].pc = "verify"
  /\ orders[ExecOrderId(1)].status = "pending"
  /\ products[1].stock = PreProducts[1].stock - ExecOrder(1).quantity

(* C24. Single-order lookup authorization: getOrderById on an existing    *)
(* order returns it to its buyer and to the owner of its product and       *)
(* answers Forbidden, never NotFound, to anyone else; it answers NotFound  *)
(* only when no order has that id; it changes nothing.                      *)
IsGetOrder == last.op = "getOrderById"
GetOrderExists == last.id \in 1..Len(PreOrders)
C24_OrderLookupAuthorization ==
  IsGetOrder
    => /\ Untouched
       /\ GetOrderExists
            => IF \/ PreOrders[last.id].userId = last.userId
                  \/ PreProducts[PreOrders[last.id].productId].userId
                       = last.userId
               THEN last.result = "ok" /\ last.ret = PreOrders[last.id]
               ELSE last.result = "Forbidden"
       /\ last.result = "NotFound" <=> ~GetOrderExists

(* C24 witness: a registered user who neither bought the order nor owns   *)
(* its product asked for it and got Forbidden.                              *)
C24_Witness ==
  /\ IsGetOrder /\ GetOrderExists
  /\ last.userId \in users
  /\ PreOrders[last.id].userId # last.userId
  /\ PreProducts[PreOrders[last.id].productId].userId # last.userId
  /\ last.result = "Forbidden"

(* C25. Soft delete preserves history: no request removes a product row   *)
(* or an order row; a deleteProduct by the owner changes nothing but the   *)
(* status of that product, which becomes deleted, and leaves every order   *)
(* as it was.                                                               *)
C25_SoftDeletePreservesHistory ==
  /\ Len(products) >= Len(PreProducts)
  /\ Len(orders) >= Len(PreOrders)
  /\ \A o \in 1..Len(PreOrders) : orders[o].productId = PreOrders[o].productId
  /\ (last.op = "deleteProduct" /\ last.result = "ok")
       => /\ products = [PreProducts EXCEPT ![last.id].status = "deleted"]
          /\ orders = PreOrders

(* C25 witness: the owner deleted a product that has an order; the order  *)
(* is still there.                                                          *)
C25_Witness ==
  /\ last.op = "deleteProduct" /\ last.result = "ok"
  /\ PreProducts[last.id].status # "deleted"
  /\ products[last.id].status = "deleted"
  /\ \E o \in 1..Len(orders) :
       orders[o].productId = last.id /\ orders[o] = PreOrders[o]

(* C26. A deleted product is invisible to product operations: the product *)
(* lists hold no deleted product (and every other product, of the caller   *)
(* for getMyProducts); getProductById, getProductStatus and                *)
(* getPublicProduct answer NotFound for a deleted product, and             *)
(* getPublicProduct returns a product exactly when it is active with       *)
(* stock > 0; updateProduct and deleteProduct on a deleted product answer  *)
(* NotFound and createOrder on it is rejected, all without changing        *)
(* anything.                                                                *)
NamesDeletedProduct ==
  /\ last.id \in 1..Len(PreProducts)
  /\ PreProducts[last.id].status = "deleted"
C26_DeletedProductInvisible ==
  /\ last.op \in {"getAllProducts", "getMyProducts"}
       => /\ \A i \in 1..Len(last.ret) :
               last.ret[i].product.status # "deleted"
          /\ \A p \in 1..Len(products) :
               (/\ products[p].status # "deleted"
                /\ last.op = "getMyProducts" => products[p].userId = last.userId)
                 => \E i \in 1..Len(last.ret) :
                      last.ret[i] = [id |-> p, product |-> products[p]]
          /\ Untouched
  /\ (last.op \in {"getProductById", "getProductStatus", "getPublicProduct",
                   "updateProduct", "deleteProduct"} /\ NamesDeletedProduct)
       => last.result = "NotFound" /\ Untouched
  /\ (IsCheckout /\ NamesDeletedProduct)
       => last.result \in {"NotFound", "BadRequest"} /\ Untouched
  /\ last.op = "getPublicProduct"
       => /\ last.result = "ok"
               <=> /\ last.id \in 1..Len(products)
                   /\ products[last.id].status = "active"
                   /\ products[last.id].stock > 0
          /\ last.result = "ok" => last.ret = products[last.id]
          /\ Untouched

(* C26 witness: the owner of a deleted product asked for it by id and got *)
(* NotFound.                                                                *)
C26_Witness ==
  /\ last.op = "getProductById"
  /\ NamesDeletedProduct
  /\ PreProducts[last.id].userId = last.userId
  /\ last.result = "NotFound"

(* C27. updateProduct cannot delete and is owner-only: on a product that  *)
(* is not deleted, an update by anyone but its owner is rejected with      *)
(* Forbidden, and an update by its owner that asks for status deleted is   *)
(* rejected with a 400 error; in both cases no product changes.            *)
IsUpdateProduct == last.op = "updateProduct"
UpdateProductLive ==
  /\ last.id \in 1..Len(PreProducts)
  /\ PreProducts[last.id].status # "deleted"
C27_UpdateCannotDelete ==
  (IsUpdateProduct /\ UpdateProductLive)
    => /\ PreProducts[last.id].userId # last.userId
            => last.result = "Forbidden" /\ Untouched
       /\ (PreProducts[last.id].userId = last.userId
             /\ last.dto.status = "deleted")
            => /\ last.result = "BadRequest"
               /\ last.message = "Cannot set status to DELETED"
               /\ Untouched

(* C27 witness: the owner asked for status deleted together with a new    *)
(* stock, and nothing changed.                                              *)
C27_Witness ==
  /\ IsUpdateProduct /\ UpdateProductLive
  /\ PreProducts[last.id].userId = last.userId
  /\ last.dto.status = "deleted"
  /\ last.dto.stock # 0 - 1
  /\ last.dto.stock # PreProducts[last.id].stock
  /\ last.result = "BadRequest"
  /\ products = PreProducts

(* C28. Checkout validation precedence: createOrder reports the first of  *)
(* its preconditions that fails, taken in the order buyer exists, product  *)
(* exists, product not deleted, product active, stock >= quantity; so a    *)
(* missing buyer gives NotFound whatever the product, and a deleted        *)
(* product gives 'no longer available' whatever its stock.                  *)
C28_CheckoutPrecedence ==
  IsCheckout
    => IF ~BuyerExists
       THEN last.result = "NotFound" /\ last.message = "User not found"
       ELSE IF ~CheckoutProductExists
       THEN last.result = "NotFound" /\ last.message = "Product not found"
       ELSE IF CheckoutProduct.status = "deleted"
       THEN /\ last.result = "BadRequest"
            /\ last.message = "Product is no longer available"
       ELSE IF CheckoutProduct.status # "active"
       THEN /\ last.result = "BadRequest"
            /\ last.message = "Product is not available for purchase"
       ELSE IF CheckoutProduct.stock < last.dto.quantity
       THEN /\ last.result = "BadRequest"
            /\ last.message = "Insufficient stock"
       ELSE last.result \in {"ok", "InternalServerError"}

(* C28 witness: a checkout for more than the stock of a deleted product   *)
(* was answered 'no longer available'.                                      *)
C28_Witness ==
  /\ IsCheckout /\ BuyerExists /\ CheckoutProductExists
  /\ CheckoutProduct.status = "deleted"
  /\ CheckoutProduct.stock < last.dto.quantity
  /\ last.result = "BadRequest"
  /\ last.message = "Product is no longer available"

(* C29. Verification step order: the webhook path checks the signature,   *)
(* then the gateway's confirmation, then that the order exists, then that  *)
(* it is still pending, then the stock, and answers for the first check    *)
(* that fails; so an unknown reference gives NotFound only once the        *)
(* gateway has confirmed, and a resolved order is returned unchanged only  *)
(* when the gateway confirms (otherwise the answer is an error).           *)
C29_VerificationStepOrder ==
  IsVerify
    => IF ~SignatureValid
       THEN /\ last.result = "BadRequest"
            /\ last.message = "Invalid Chapa signature"
            /\ last.effects = <<>>
       ELSE IF ~GatewaySaysSuccess
       THEN /\ last.result = "BadRequest"
            /\ last.message = "Payment verification failed"
            /\ last.effects = <<"chapa.verify">>
            /\ Untouched
       ELSE IF NamedOrderId = 0
       THEN /\ last.result = "NotFound"
            /\ last.effects = <<"chapa.verify", "order.findOne">>
       ELSE IF NamedOrder.status # "pending"
       THEN /\ last.result = "ok" /\ last.ret = NamedOrder
            /\ Untouched
       ELSE IF NamedProduct.stock >= NamedOrder.quantity
       THEN last.result = "ok" /\ Made("product.save")
       ELSE last.result = "BadRequest" /\ ~Made("product.save")

(* C29 witness: for an order already successful the gateway answered      *)
(* failed, and the webhook ended with an error instead of the order.       *)
C29_Witness ==
  /\ IsVerify /\ SignatureValid
  /\ GatewayAsked /\ ~GatewaySaysSuccess
  /\ NamedOrderId # 0
  /\ NamedOrder.status = "successful"
  /\ last.result = "BadRequest"
  /\ last.ret = NoRow

(* C30. No overselling under concurrency: when two verifications for      *)
(* different pending orders of one product have both ended, however their  *)
(* steps interleaved, the stock there was equals the stock left plus the   *)
(* total quantity of the orders that are successful.                        *)
C30_NoOversellingConcurrent ==
  (IsConcurrent /\ ExecOrderId(1) # ExecOrderId(2) /\ AllDone)
    => PreProducts[1].stock
         = products[1].stock + SuccessfulQuantity(orders, 1)

(* vocabulary of the serial calls *)
Calls == 1..Len(last.execs)
IsVerifyCall(e) == "txRef" \in DOMAIN last.execs[e]
IsUpdateCall(e) == "orderId" \in DOMAIN last.execs[e]
SavedProduct(e) == \E i \in 1..Len(last.saved) : last.saved[i] = e
(* e is a verification that debited the stock for order o *)
DebitedFor(e, o) ==
  /\ IsVerifyCall(e) /\ SavedProduct(e)
  /\ Carrier(PreOrders, last.execs[e].txRef) = o
(* e is a status update that put the stock of order o back *)
RestoredFor(e, o) ==
  /\ IsUpdateCall(e) /\ SavedProduct(e)
  /\ last.execs[e].orderId = o

(* C31. Each order debits the stock at most once: in any sequence of      *)
(* verifications and owner status updates (also updates that write pending *)
(* back onto a successful or failed order, followed by a redelivered       *)
(* webhook), two verifications that debited the stock for the same order   *)
(* have a successful -> failed update of that order between them, which    *)
(* put the debit back.                                                      *)
C31_DebitAtMostOnce ==
  IsConcurrent
    => \A o \in 1..Len(orders) : \A a, b \in Calls :
         (a < b /\ DebitedFor(a, o) /\ DebitedFor(b, o))
           => \E c \in Calls : a < c /\ c < b /\ RestoredFor(c, o)

(* C32. Restoration never creates inventory: after any sequence of        *)
(* verifications and status updates, each run to completion, on a product  *)
(* whose stock the owner does not edit, the stock is at most the stock     *)
(* there was at the start, and every status update that put the stock of   *)
(* an order back comes after a verification that debited it for that       *)
(* order.                                                                   *)
C32_RestoreCreatesNoInventory ==
  (IsConcurrent /\ Idle)
    => /\ \A p \in 1..Len(products) :
            products[p].stock <= PreProducts[p].stock
       /\ \A o \in 1..Len(orders) : \A c \in Calls :
            RestoredFor(c, o) => \E a \in Calls : a < c /\ DebitedFor(a, o)

(* C33. Verify followed by restore is a round trip on the product: when a *)
(* pending order is verified successfully and the owner then sets it to    *)
(* failed, nothing else having run, the product (stock and status) is as   *)
(* it was before the verification, whatever its status was (active,        *)
(* out_of_stock with stock left, deleted) and for every stock that         *)
(* covers the quantity.                                                     *)
C33_VerifyRestoreRoundTrip ==
  (/\ IsConcurrent /\ Idle
   /\ Len(last.execs) = 2
   /\ \E o \in 1..Len(orders) : DebitedFor(1, o) /\ RestoredFor(2, o))
    => products = PreProducts

(* C34. No lost stock update between verification and restore: when a     *)
(* verification that debits q1 for a pending order overlaps a status       *)
(* update by the owner that takes another, successful order of the same    *)
(* product to failed and restores q2, then under every interleaving the    *)
(* stock, once both are done, is the stock there was - q1 + q2.            *)
C34_NoLostStockUpdate ==
  (/\ IsConcurrent
   /\ Len(last.execs) = 2 /\ IsVerifyCall(1) /\ IsUpdateCall(2)
   /\ last.execs[1].pc = "done" /\ last.execs[2].pc = "done"
   /\ SavedProduct(1) /\ SavedProduct(2)
   /\ ExecOrderId(1) # last.execs[2].orderId)
    => products[1].stock
         = PreProducts[1].stock - ExecOrder(1).quantity
             + PreOrders[last.execs[2].orderId].quantity

(* C35. Verification is all-or-nothing on failure: when a verification on *)
(* the sufficient-stock path ends with a persistence error (its product    *)
(* save or its order save failed), neither the debit nor the successful    *)
(* status is stored: with no other verification started, the product and   *)
(* the orders are as they were; the stock is never debited for an order    *)
(* that is still pending after the call has ended.                          *)
C35_VerificationAllOrNothing ==
  IsConcurrent
    => \A e \in Executions :
         (/\ last.execs[e].result = "InternalServerError"
          /\ last.execs[e].threw \in {"saveProduct", "saveOrder"}
          /\ \A f \in Executions \ {e} : last.execs[f].pc = "verify")
           => products = PreProducts /\ orders = PreOrders

(* C36. Verification always resolves a pending order.  An execution of    *)
(* verifyPayment that the gateway confirmed, that found its order pending  *)
(* and whose saves succeeded has, when it ends, stored the order as        *)
(* successful or failed: the order is not pending.  And under fair         *)
(* scheduling every execution that the gateway confirmed leads to its      *)
(* order being stored as successful or failed.                              *)
C36_VerificationResolves ==
  /\ [](IsConcurrent
          => \A e \in Executions :
               (last.execs[e].pc = "done" /\ HasRead(e))
                 => orders[ExecOrderId(e)].status \in {"successful", "failed"})
  /\ \A e \in Executions :
       At(e, "find")
         ~> (orders[ExecOrderId(e)].status \in {"successful", "failed"})

(* C36 witness: two confirmed executions for two pending orders have      *)
(* ended, the first with its order successful, the second, finding too     *)
(* little stock left, with its order failed.                                *)
C36_Witness ==
  /\ IsConcurrent /\ AllDone
  /\ ExecOrderId(1) # ExecOrderId(2)
  /\ ExecOrder(1).status = "pending" /\ ExecOrder(2).status = "pending"
  /\ last.execs[1].result = "ok" /\ last.execs[2].result = "BadRequest"
  /\ HasRead(1) /\ HasRead(2)
  /\ orders[ExecOrderId(1)].status = "successful"
  /\ orders[ExecOrderId(2)].status = "failed"

(* C37. Operations touch only their own order and product.  A webhook     *)
(* changes at most the order that carries its reference and the product    *)
(* of that order; updateOrderStatus changes at most the order it names     *)
(* and that order's product; createOrder changes no product and no order   *)
(* that exists (it adds one at most); no request removes an order.  While  *)
(* a verification and a status update interleave, an order differs from    *)
(* what it was only if one of the two names it, and a product only if an   *)
(* execution for an order on that product has saved it.                    *)
C37_FrameOwnOrderAndProduct ==
  /\ IsVerify
       => /\ Len(orders) = Len(PreOrders)
          /\ \A o \in 1..Len(PreOrders) :
               o # NamedOrderId => orders[o] = PreOrders[o]
          /\ \A p \in 1..Len(PreProducts) :
               (NamedOrderId = 0 \/ p # NamedProductId)
                 => products[p] = PreProducts[p]
  /\ IsStatusUpdate
       => /\ Len(orders) = Len(PreOrders)
          /\ \A o \in 1..Len(PreOrders) :
               o # last.id => orders[o] = PreOrders[o]
          /\ \A p \in 1..Len(PreProducts) :
               (~StatusUpdateOrderExists \/ p # StatusUpdateProductId)
                 => products[p] = PreProducts[p]
  /\ IsCheckout
       => /\ products = PreProducts
          /\ Len(orders) \in {Len(PreOrders), Len(PreOrders) + 1}
          /\ \A o \in 1..Len(PreOrders) : orders[o] = PreOrders[o]
  /\ IsConcurrent
       => /\ Len(orders) = Len(PreOrders)
          /\ \A o \in 1..Len(PreOrders) :
               orders[o] # PreOrders[o]
                 => o = ExecOrderId(1) \/ o = last.execs[2].orderId
          /\ \A p \in 1..Len(PreProducts) :
               products[p] # PreProducts[p]
                 => \E i \in 1..Len(last.saved) :
                      last.execs[last.saved[i]].order.productId = p

(* C37 witness: a verification for an order on one product and a status   *)
(* update that restores an order on another product interleave; the        *)
(* verification saved its product, then the status update saved the other  *)
(* one before the verification saved its order, and each product is as     *)
(* its own execution saved it.                                              *)
C37_Witness ==
  /\ IsConcurrent
  /\ last.saved = <<1, 2>>
  /\ last.execs[1].pc = "saveOrder"
  /\ last.execs[1].order.productId # last.execs[2].order.productId
  /\ \A e \in {1, 2} :
       /\ products[last.execs[e].order.productId] = last.execs[e].product
       /\ PreProducts[last.execs[e].order.productId] # last.execs[e].product

=============================================================================
